---------------------------- MODULE Spec2Model ----------------------------
(***************************************************************************)
(* The BX0 interpreter: the PLY/yacc grammar of parser.py (productions,    *)
(* precedence table, p_error) and the tree-walking evaluator and driver   *)
(* of bx0_interpreter.py (truncate_number, evaluate_expression,           *)
(* process_stmt, main).                                                    *)
(*                                                                         *)
(* Python integers are unbounded and the interpreter truncates them to a  *)
(* 64-bit word.  TLC's integers are 32 bits wide, so the word is WordBits *)
(* wide here and every constant of truncate_number is derived from it     *)
(* (0xffffffffffffffff is Mask, 1 << 63 is SignBit, 1 << 64 is Modulus).  *)
(***************************************************************************)
EXTENDS Integers, Sequences, FiniteSets, TLC

VARIABLES
    argv,       \* number of files named on the command line (sys.argv[1:])
    fileIdx,    \* position of main's for loop in sys.argv[1:]
    pc,         \* where main is: "for", "while", "exited"; "test"/"eval" for the harnesses
    source,     \* the token sequence the scanner delivers for the loaded source
    stmts,      \* main's stmts: the node the walk is at (or None)
    variables,  \* main's variables: the environment of the file being processed
    stdout,     \* the lines written to standard output so far
    status,     \* how the process ended: exit code and uncaught exception
    executed,   \* the statements process_stmt was called on, for the current file
    node,       \* the expression handed to evaluate_expression (evaluator harness)
    result      \* what the harnessed call returned or raised

vars == <<argv, fileIdx, pc, source, stmts, variables, stdout, status, executed, node, result>>

(***************************************************************************)
(* Bounds of the model.                                                    *)
(***************************************************************************)
WordBits == 4
MaxFiles == 2
MaxStmts == 2
MaxTokens == 4

(***************************************************************************)
(* AST nodes (class Node) and Python's None.                               *)
(***************************************************************************)
None == [opcode |-> "NoneType"]

Node(opcode, value, kids) == [opcode |-> opcode, value |-> value, kids |-> kids]

(***************************************************************************)
(* Python's integer operators on unbounded integers.                       *)
(***************************************************************************)
Pow2(n) == 2 ^ n

Abs(x) == IF x < 0 THEN 0 - x ELSE x

\* the slip of dividing like C: rounding toward zero
FloorDiv_TowardZero(x, y) ==
    IF (x < 0) = (y < 0) THEN Abs(x) \div Abs(y) ELSE 0 - (Abs(x) \div Abs(y))

\* x // y for y # 0: rounds toward negative infinity
FloorDiv(x, y) == IF y > 0 THEN x \div y ELSE (0 - x) \div (0 - y)

\* x % y for y # 0: the sign of the divisor
PyMod(x, y) == x - y * FloorDiv(x, y)

RECURSIVE BitAnd(_, _)
\* x & y on the infinite two's-complement representation
BitAnd(x, y) ==
    IF x = 0 \/ y = 0 THEN 0
    ELSE IF x = -1 THEN y
    ELSE IF y = -1 THEN x
    ELSE 2 * BitAnd(x \div 2, y \div 2) + (x % 2) * (y % 2)

\* ~x
BitNot(x) == (0 - x) - 1

\* x | y
BitOr(x, y) == BitNot(BitAnd(BitNot(x), BitNot(y)))

\* x ^ y
BitXor(x, y) == BitAnd(BitOr(x, y), BitNot(BitAnd(x, y)))

Mask == Pow2(WordBits) - 1
SignBit == Pow2(WordBits - 1)
Modulus == Pow2(WordBits)
MinInt == 0 - SignBit
MaxInt == SignBit - 1
Int64 == MinInt .. MaxInt

\* the slip of masking without converting to two's complement
truncate_number_NoSignFix(num) == BitAnd(num, Mask)

truncate_number(num) ==
    LET n == BitAnd(num, Mask)
    IN  IF BitAnd(n, SignBit) # 0 THEN n - Modulus ELSE n

(***************************************************************************)
(* What a call does: it returns a value or raises; out holds the lines it  *)
(* printed on the way.                                                     *)
(***************************************************************************)
Return(v) == [outcome |-> "return", value |-> v, out |-> <<>>]
Raise(exc, arg, out) == [outcome |-> "raise", exc |-> exc, arg |-> arg, out |-> out]

BinOps == {"+", "-", "*", "/", "%", "&", "|", "^", "<<", ">>"}
UnOps == {"-", "~"}

\* the table of lambdas of the binop branch, applied to the operand values
BinOpApply(op, x, y) ==
    CASE op = "+" -> Return(x + y)
      [] op = "-" -> Return(x - y)
      [] op = "*" -> Return(x * y)
      [] op = "/" -> IF y = 0 THEN Raise("ZeroDivisionError", "/", <<>>)
                     ELSE Return(FloorDiv(x, y))
      [] op = "%" -> IF y = 0 THEN Raise("ZeroDivisionError", "%", <<>>)
                     ELSE Return(PyMod(x, y))
      [] op = "&" -> Return(BitAnd(x, y))
      [] op = "|" -> Return(BitOr(x, y))
      [] op = "^" -> Return(BitXor(x, y))
      [] op = "<<" -> IF y < 0 THEN Raise("ValueError", "negative shift count", <<>>)
                      ELSE Return(x * Pow2(y))
      [] op = ">>" -> IF y < 0 THEN Raise("ValueError", "negative shift count", <<>>)
                      ELSE Return(x \div Pow2(y))

\* the table of lambdas of the unop branch
UnOpApply(op, x) ==
    CASE op = "-" -> Return(0 - x)
      [] op = "~" -> Return(BitNot(x))

RECURSIVE evaluate_expression(_, _)
evaluate_expression(env, n) ==
    CASE n.opcode = "var" ->
            IF n.value \notin DOMAIN env
            THEN Raise("SystemExit", "1", << <<"Error: ", n.value, " is not defined">> >>)
            ELSE Return(env[n.value])
      [] n.opcode = "num" -> Return(n.value)
      [] n.opcode = "binop" ->
            LET l == evaluate_expression(env, n.kids[1])
            IN  IF l.outcome = "raise" THEN l
                ELSE LET r == evaluate_expression(env, n.kids[2])
                     IN  IF r.outcome = "raise" THEN r
                         ELSE LET res == BinOpApply(n.value, l.value, r.value)
                              IN  IF res.outcome = "raise" THEN res
                                  ELSE Return(truncate_number(res.value))
      [] n.opcode = "unop" ->
            LET x == evaluate_expression(env, n.kids[1])
            IN  IF x.outcome = "raise" THEN x
                ELSE Return(truncate_number(UnOpApply(n.value, x.value).value))


(***************************************************************************)
(* Tokens, as the scanner hands them to the parser: a type and a value     *)
(* (the name of an IDENT, the integer of a NUMBER, the lexeme otherwise).  *)
(* The value is kept in two fields, text and number, one per Python type.  *)
(***************************************************************************)
Tok(type, text, number) == [type |-> type, text |-> text, number |-> number]

\* t.value
TokValue(t) == IF t.type = "NUMBER" THEN t.number ELSE t.text

BinTokens == {"PLUS", "MINUS", "STAR", "SLASH", "PERCENT", "AMP", "BAR", "CARET", "LTLT", "GTGT"}

\* the tokens an expression can start with, and those that can follow one
ExprStart == {"IDENT", "NUMBER", "MINUS", "UMINUS", "TILDE", "LPAREN"}
ExprFollow == BinTokens \cup {"SEMICOLON", "RPAREN"}
StmtStart == {"IDENT", "PRINT"}
StmtFollow == StmtStart \cup {"$end"}

\* the slip of listing the shifts above + and - in the table
precedence_ShiftAboveAdd(t) ==
    CASE t = "BAR" -> 1
      [] t = "CARET" -> 2
      [] t = "AMP" -> 3
      [] t \in {"PLUS", "MINUS"} -> 4
      [] t \in {"LTLT", "GTGT"} -> 5
      [] t \in {"STAR", "SLASH", "PERCENT"} -> 6
      [] t = "UMINUS" -> 7
      [] t = "TILDE" -> 8

\* the level of a token in the precedence table, lowest first
precedence(t) ==
    CASE t = "BAR" -> 1
      [] t = "CARET" -> 2
      [] t = "AMP" -> 3
      [] t \in {"LTLT", "GTGT"} -> 4
      [] t \in {"PLUS", "MINUS"} -> 5
      [] t \in {"STAR", "SLASH", "PERCENT"} -> 6
      [] t = "UMINUS" -> 7
      [] t = "TILDE" -> 8

\* every level of the table is declared 'left'
associativity(t) == "left"

\* the symbol k places below the top of the parser's stack ("" when there is none)
Sym(stack, k) == IF k <= Len(stack) THEN stack[Len(stack) + 1 - k].sym ELSE ""

\* the value k places below the top of the stack
Val(stack, k) == stack[Len(stack) + 1 - k].val

\* the top k entries replaced by the nonterminal sym carrying val
Reduce(stack, k, sym, val) ==
    Append(SubSeq(stack, 1, Len(stack) - k), [sym |-> sym, val |-> val])

\* yacc's resolution of a shift/reduce conflict between a rule and the lookahead
ResolveConflict(rulePrec, la) ==
    IF rulePrec > precedence(la) THEN "reduce"
    ELSE IF rulePrec < precedence(la) THEN "shift"
    ELSE IF associativity(la) = "left" THEN "reduce" ELSE "shift"

\* the slip of leaving out %prec UMINUS
p_expr_unop_rule_prec_NoPrec(op) == precedence(op)

\* the precedence of a p_expr_unop rule: %prec UMINUS for MINUS, else its terminal's
p_expr_unop_rule_prec(op) == IF op = "MINUS" THEN precedence("UMINUS") ELSE precedence(op)

(***************************************************************************)
(* The grammar's productions: what each p_ function leaves on the stack.   *)
(***************************************************************************)
p_program_empty(stack) == Reduce(stack, 0, "program", Node("statements", None, <<>>))

p_program(stack) ==
    Reduce(stack, 2, "program", Node("statements", None, <<Val(stack, 2), Val(stack, 1)>>))

p_stmt(stack) == Reduce(stack, 1, "stmt", Val(stack, 1))

p_stmt_assign(stack) ==
    Reduce(stack, 4, "assign", Node("assign", "=", <<Val(stack, 4), Val(stack, 2)>>))

p_stmt_print(stack) == Reduce(stack, 5, "print", Node("print", Val(stack, 3), <<>>))

p_expr_ident(stack) == Reduce(stack, 1, "expr", Node("var", Val(stack, 1), <<>>))

p_expr_number(stack) == Reduce(stack, 1, "expr", Node("num", Val(stack, 1), <<>>))

p_expr_binop(stack) ==
    Reduce(stack, 3, "expr", Node("binop", Val(stack, 2), <<Val(stack, 3), Val(stack, 1)>>))

p_expr_unop(stack) ==
    Reduce(stack, 2, "expr", Node("unop", Val(stack, 2), <<Val(stack, 1)>>))

p_expr_parens(stack) == Reduce(stack, 3, "expr", Val(stack, 2))

\* the slip of reporting the error without raising
p_error_NeverRaise(la) == Return(None)

\* p_error: nothing at the end of the input (p is None), SyntaxError(p.type) otherwise;
\* after it returns at the end of the input, yacc's parse gives up and returns None
p_error(la) == IF la = "$end" THEN Return(None) ELSE Raise("SyntaxError", la, <<>>)

(***************************************************************************)
(* The parser yacc.yacc(start='program') builds: the action for a stack    *)
(* and a lookahead token type.                                             *)
(***************************************************************************)
Action(stack, la) ==
    LET s1 == Sym(stack, 1)
        s2 == Sym(stack, 2)
        s3 == Sym(stack, 3)
        s4 == Sym(stack, 4)
        sh == IF la = "$end" THEN "error" ELSE "shift"
    IN  CASE s1 \in {"", "stmt"} ->
                IF la \in StmtStart THEN "shift"
                ELSE IF la = "$end" THEN "p_program_empty" ELSE "error"
          [] s1 = "program" ->
                IF la # "$end" THEN "error"
                ELSE IF s2 = "stmt" THEN "p_program" ELSE "accept"
          [] s1 \in {"assign", "print"} ->
                IF la \in StmtFollow THEN "p_stmt" ELSE "error"
          [] s1 = "IDENT" /\ s2 \in {"", "stmt"} ->
                IF la = "EQ" THEN "shift" ELSE "error"
          [] s1 = "PRINT" ->
                IF la = "LPAREN" THEN "shift" ELSE "error"
          [] s1 \in {"EQ", "LPAREN", "UMINUS", "TILDE"} \cup BinTokens ->
                IF la \in ExprStart THEN "shift" ELSE "error"
          [] s1 = "IDENT" /\ s2 \notin {"", "stmt"} ->
                IF la \in ExprFollow THEN "p_expr_ident" ELSE "error"
          [] s1 = "NUMBER" ->
                IF la \in ExprFollow THEN "p_expr_number" ELSE "error"
          [] s1 = "expr" /\ s2 = "EQ" ->
                IF la \in BinTokens \cup {"SEMICOLON"} THEN "shift" ELSE "error"
          [] s1 = "expr" /\ s2 = "LPAREN" ->
                IF la \in BinTokens \cup {"RPAREN"} THEN "shift" ELSE "error"
          [] s1 = "expr" /\ s2 \in BinTokens /\ s3 = "expr" ->
                IF la \in BinTokens
                THEN IF ResolveConflict(precedence(s2), la) = "reduce"
                     THEN "p_expr_binop" ELSE "shift"
                ELSE IF la \in ExprFollow THEN "p_expr_binop" ELSE "error"
          [] s1 = "expr" /\ s2 \in {"MINUS", "UMINUS", "TILDE"} /\ s3 # "expr" ->
                IF la \in BinTokens
                THEN IF ResolveConflict(p_expr_unop_rule_prec(s2), la) = "reduce"
                     THEN "p_expr_unop" ELSE "shift"
                ELSE IF la \in ExprFollow THEN "p_expr_unop" ELSE "error"
          [] s1 = "RPAREN" /\ s4 = "PRINT" ->
                IF la = "SEMICOLON" THEN "shift" ELSE "error"
          [] s1 = "RPAREN" /\ s4 # "PRINT" ->
                IF la \in ExprFollow THEN "p_expr_parens" ELSE "error"
          [] s1 = "SEMICOLON" /\ s3 = "EQ" ->
                IF la \in StmtFollow THEN "p_stmt_assign" ELSE "error"
          [] s1 = "SEMICOLON" /\ s3 # "EQ" ->
                IF la \in StmtFollow THEN "p_stmt_print" ELSE "error"

RECURSIVE ParseLoop(_, _)
\* parser.parse: shift and reduce until the input is accepted or p_error is called
ParseLoop(stack, input) ==
    LET la == IF input = <<>> THEN "$end" ELSE Head(input).type
        act == Action(stack, la)
    IN  CASE act = "shift" ->
                ParseLoop(Append(stack, [sym |-> la, val |-> TokValue(Head(input))]), Tail(input))
          [] act = "accept" -> Return(Val(stack, 1))
          [] act = "error" -> p_error(la)
          [] act = "p_program_empty" -> ParseLoop(p_program_empty(stack), input)
          [] act = "p_program" -> ParseLoop(p_program(stack), input)
          [] act = "p_stmt" -> ParseLoop(p_stmt(stack), input)
          [] act = "p_stmt_assign" -> ParseLoop(p_stmt_assign(stack), input)
          [] act = "p_stmt_print" -> ParseLoop(p_stmt_print(stack), input)
          [] act = "p_expr_ident" -> ParseLoop(p_expr_ident(stack), input)
          [] act = "p_expr_number" -> ParseLoop(p_expr_number(stack), input)
          [] act = "p_expr_binop" -> ParseLoop(p_expr_binop(stack), input)
          [] act = "p_expr_unop" -> ParseLoop(p_expr_unop(stack), input)
          [] act = "p_expr_parens" -> ParseLoop(p_expr_parens(stack), input)

parser_parse(tokens) == ParseLoop(<<>>, tokens)


(***************************************************************************)
(* Statements and the driver.                                              *)
(***************************************************************************)
Digit(d) == CASE d = 0 -> "0" [] d = 1 -> "1" [] d = 2 -> "2" [] d = 3 -> "3" [] d = 4 -> "4"
              [] d = 5 -> "5" [] d = 6 -> "6" [] d = 7 -> "7" [] d = 8 -> "8" [] d = 9 -> "9"

RECURSIVE NatToStr(_)
NatToStr(n) == IF n < 10 THEN <<Digit(n)>> ELSE NatToStr(n \div 10) \o <<Digit(n % 10)>>

\* str(n), the line print(n) writes: a sequence of characters
IntToStr(n) == IF n < 0 THEN <<"-">> \o NatToStr(0 - n) ELSE NatToStr(n)

EmptyEnv == [k \in {} |-> 0]

\* variables[name] = v
Bind(env, name, v) == [k \in DOMAIN env \cup {name} |-> IF k = name THEN v ELSE env[k]]

\* the slip of printing the value of an assignment too
process_stmt_PrintsAssign(env, n) ==
    LET r == evaluate_expression(env, IF n.opcode = "assign" THEN n.kids[2] ELSE n.value)
    IN  IF r.outcome = "raise" THEN r
        ELSE IF n.opcode = "assign"
        THEN [outcome |-> "return", env |-> Bind(env, n.kids[1], r.value),
              out |-> <<IntToStr(r.value)>>]
        ELSE [outcome |-> "return", env |-> env, out |-> <<IntToStr(r.value)>>]

\* the slip of binding the target although the expression failed
process_stmt_BindsBeforeEval(env, n) ==
    LET r == evaluate_expression(env, IF n.opcode = "assign" THEN n.kids[2] ELSE n.value)
    IN  IF r.outcome = "raise" /\ n.opcode = "assign"
        THEN [outcome |-> "return", env |-> Bind(env, n.kids[1], 0), out |-> r.out]
        ELSE IF r.outcome = "raise" THEN r
        ELSE IF n.opcode = "assign"
        THEN [outcome |-> "return", env |-> Bind(env, n.kids[1], r.value), out |-> <<>>]
        ELSE [outcome |-> "return", env |-> env, out |-> <<IntToStr(r.value)>>]

\* process_stmt: the environment it leaves and the lines it prints, or what it raises
process_stmt(env, n) ==
    IF n.opcode = "assign"
    THEN LET r == evaluate_expression(env, n.kids[2])
         IN  IF r.outcome = "raise" THEN r
             ELSE [outcome |-> "return", env |-> Bind(env, n.kids[1], r.value), out |-> <<>>]
    ELSE LET r == evaluate_expression(env, n.value)
         IN  IF r.outcome = "raise" THEN r
             ELSE [outcome |-> "return", env |-> env, out |-> <<IntToStr(r.value)>>]

Running == [code |-> -1, exc |-> "", arg |-> ""]
Exited(code, exc, arg) == [code |-> code, exc |-> exc, arg |-> arg]

Banner(i) == <<"[[ processing ", "file", Digit(i), " ]]">>

Pending == [outcome |-> "pending"]

(***************************************************************************)
(* The token source: what the scanner delivers for a source text.          *)
(***************************************************************************)
Lexeme(type) ==
    CASE type = "PLUS" -> "+" [] type = "MINUS" -> "-" [] type = "STAR" -> "*"
      [] type = "SLASH" -> "/" [] type = "PERCENT" -> "%" [] type = "AMP" -> "&"
      [] type = "BAR" -> "|" [] type = "CARET" -> "^" [] type = "LTLT" -> "<<"
      [] type = "GTGT" -> ">>" [] type = "TILDE" -> "~" [] type = "EQ" -> "="
      [] type = "SEMICOLON" -> ";" [] type = "LPAREN" -> "(" [] type = "RPAREN" -> ")"
      [] type = "PRINT" -> "print"

T(type) == Tok(type, Lexeme(type), 0)
Ident(name) == Tok("IDENT", name, 0)
Number(n) == Tok("NUMBER", "", n)

\* name = <expr> ;
AssignSrc(name, e) == <<Ident(name), T("EQ")>> \o e \o <<T("SEMICOLON")>>

\* print ( <expr> ) ;
PrintSrc(e) == <<T("PRINT"), T("LPAREN")>> \o e \o <<T("RPAREN"), T("SEMICOLON")>>

\* the literals the token source delivers: a NUMBER token carries int(lexeme), and no
\* range check is documented, so MAX + 1 stands for the literals beyond the word
NumberLiterals == 0 .. SignBit

\* the statements the files of a run are made of
StmtSources ==
    { AssignSrc("x", <<Number(1)>>),                                     \* x = 1;
      AssignSrc("x", <<Number(CHOOSE n \in NumberLiterals : n > MaxInt)>>), \* x = MAX+1;
      AssignSrc("x", <<Ident("q")>>),                                    \* x = q;
      PrintSrc(<<T("MINUS"), Ident("x")>>),                              \* print(-x);
      PrintSrc(<<Number(1), T("SLASH"), Number(0), T("PLUS"), Ident("q")>>), \* print(1 / 0 + q);
      AssignSrc("s", <<Ident("x"), T("PLUS"), T("PLUS"), Ident("x")>>),  \* s = x + + x;
      <<Ident("x"), T("EQ"), Number(1)>> }                               \* x = 1

RECURSIVE Programs(_)
\* the files of at most k statements
Programs(k) ==
    IF k = 0 THEN {<<>>}
    ELSE {<<>>} \cup {s \o p : s \in StmtSources, p \in Programs(k - 1)}

(***************************************************************************)
(* main: one step per file loaded and parsed, and one per turn of the      *)
(* while loop.                                                             *)
(***************************************************************************)
Init ==
    /\ argv \in 0 .. MaxFiles
    /\ fileIdx = 0
    /\ pc = "for"
    /\ source = <<>>
    /\ stmts = None
    /\ variables = EmptyEnv
    /\ stdout = <<>>
    /\ status = Running
    /\ executed = <<>>
    /\ node = None
    /\ result = Pending

\* for filename in sys.argv[1:]: banner, load_source, variables = {}, parser.parse
ForNextFile ==
    /\ pc = "for"
    /\ fileIdx < argv
    /\ \E src \in Programs(MaxStmts) :
         LET r == parser_parse(src)
         IN  /\ source' = src
             /\ IF r.outcome = "raise"
                THEN /\ pc' = "exited"
                     /\ status' = Exited(1, r.exc, r.arg)
                     /\ stmts' = stmts
                ELSE /\ pc' = "while"
                     /\ status' = status
                     /\ stmts' = r.value
    /\ fileIdx' = fileIdx + 1
    /\ stdout' = Append(stdout, Banner(fileIdx + 1))
    /\ variables' = EmptyEnv
    /\ executed' = <<>>
    /\ UNCHANGED <<argv, node, result>>

\* while stmts.kids: process_stmt(variables, stmts.kids[0]); stmts = stmts.kids[1]
WhileBody ==
    /\ pc = "while"
    /\ stmts # None
    /\ stmts.kids # <<>>
    /\ LET r == process_stmt(variables, stmts.kids[1])
       IN  /\ stdout' = stdout \o r.out
           /\ executed' = Append(executed, stmts.kids[1])
           /\ IF r.outcome = "raise"
              THEN /\ pc' = "exited"
                   /\ status' = Exited(1, r.exc, r.arg)
                   /\ UNCHANGED <<variables, stmts>>
              ELSE /\ variables' = r.env
                   /\ stmts' = stmts.kids[2]
                   /\ UNCHANGED <<pc, status>>
    /\ UNCHANGED <<argv, fileIdx, source, node, result>>

\* while stmts.kids, with stmts the None that parse returned: AttributeError
WhileNone ==
    /\ pc = "while"
    /\ stmts = None
    /\ pc' = "exited"
    /\ status' = Exited(1, "AttributeError", "kids")
    /\ UNCHANGED <<argv, fileIdx, source, stmts, variables, stdout, executed, node, result>>

\* while stmts.kids is false at the empty statements node: on to the next file
WhileExit ==
    /\ pc = "while"
    /\ stmts # None
    /\ stmts.kids = <<>>
    /\ pc' = "for"
    /\ UNCHANGED <<argv, fileIdx, source, stmts, variables, stdout, status, executed, node, result>>

\* the for loop is over: main returns and the process exits with 0
MainReturn ==
    /\ pc = "for"
    /\ fileIdx = argv
    /\ pc' = "exited"
    /\ status' = Exited(0, "", "")
    /\ UNCHANGED <<argv, fileIdx, source, stmts, variables, stdout, executed, node, result>>

Next == ForNextFile \/ WhileBody \/ WhileNone \/ WhileExit \/ MainReturn

Spec == Init /\ [][Next]_vars


(***************************************************************************)
(* The parser on its own, as parser.py's test helper parse(source) calls   *)
(* it: every short token sequence, and the expressions of three operands   *)
(* and two operators (or one operator and one prefix operator).            *)
(***************************************************************************)
TokenTypes ==
    BinTokens \cup {"IDENT", "NUMBER", "TILDE", "EQ", "SEMICOLON", "LPAREN", "RPAREN", "PRINT"}

\* one token per class of the grammar, for the exhaustive sequences
CoreTokens ==
    { Ident("x"), Number(1), T("PLUS"), T("MINUS"), T("STAR"), T("TILDE"), T("EQ"),
      T("SEMICOLON"), T("LPAREN"), T("RPAREN"), T("PRINT") }

RECURSIVE SeqsUpTo(_, _)
SeqsUpTo(S, n) ==
    IF n = 0 THEN {<<>>}
    ELSE LET P == SeqsUpTo(S, n - 1) IN P \cup {Append(q, t) : q \in P, t \in S}

\* the operand tokens tried at the i-th operand place: a name and a literal
OperandNames == <<"x", "y", "z">>
OperandToks(i) == {Ident(OperandNames[i]), Number(i)}
PrefixTokens == {"MINUS", "TILDE"}

\* s = a op1 b op2 c ;
TwoOpSources ==
    { AssignSrc("s", <<a, T(op1), b, T(op2), c>>) :
        a \in OperandToks(1), b \in OperandToks(2), c \in OperandToks(3),
        op1 \in BinTokens, op2 \in BinTokens }

\* s = u a op b ;   s = a op u b ;   s = u a op v b ;   print ( u a op v b ) ;
PrefixSources ==
    UNION { { AssignSrc("s", <<T(u), a, T(op), b>>),
              AssignSrc("s", <<a, T(op), T(u), b>>),
              AssignSrc("s", <<T(u), a, T(op), T(v), b>>),
              PrintSrc(<<T(u), a, T(op), T(v), b>>) } :
            a \in OperandToks(1), b \in OperandToks(2), op \in BinTokens,
            u \in PrefixTokens, v \in PrefixTokens }

TestSources == SeqsUpTo(CoreTokens, MaxTokens) \cup TwoOpSources \cup PrefixSources

InitParse ==
    /\ argv = 0
    /\ fileIdx = 0
    /\ pc = "test"
    /\ source \in TestSources
    /\ stmts = None
    /\ variables = EmptyEnv
    /\ stdout = <<>>
    /\ status = Running
    /\ executed = <<>>
    /\ node = None
    /\ result = Pending

\* parse(source): set_source(source); return parser.parse(lexer=lexer)
TestParse ==
    /\ pc = "test"
    /\ result' = parser_parse(source)
    /\ pc' = "tested"
    /\ UNCHANGED <<argv, fileIdx, source, stmts, variables, stdout, status, executed, node>>

SpecParse == InitParse /\ [][TestParse]_vars

(***************************************************************************)
(* The evaluator on its own: one operator applied to every pair of values, *)
(* each operand a bound variable or, when it is not negative, a literal.   *)
(***************************************************************************)
\* the operand values: the 64-bit range and the first literal beyond it
OperandValues == MinInt .. SignBit

Operand(name, v, literal) ==
    IF literal THEN Node("num", v, <<>>) ELSE Node("var", name, <<>>)

InitEval ==
    /\ argv = 0
    /\ fileIdx = 0
    /\ pc = "eval"
    /\ source = <<>>
    /\ stmts = None
    /\ stdout = <<>>
    /\ status = Running
    /\ executed = <<>>
    /\ result = Pending
    /\ \E l \in OperandValues, r \in OperandValues, litL \in BOOLEAN, litR \in BOOLEAN :
         /\ IF litL THEN l >= 0 ELSE l \in Int64
         /\ IF litR THEN r >= 0 ELSE r \in Int64
         /\ variables = [k \in {"a", "b"} |-> IF k = "a" THEN l ELSE r]
         /\ \/ \E op \in BinOps :
                 node = Node("binop", op, <<Operand("a", l, litL), Operand("b", r, litR)>>)
            \/ \E op \in UnOps :
                 /\ ~litR
                 /\ node = Node("unop", op, <<Operand("a", l, litL)>>)

\* evaluate_expression(variables, node)
Evaluate ==
    /\ pc = "eval"
    /\ result' = evaluate_expression(variables, node)
    /\ pc' = "evaluated"
    /\ UNCHANGED <<argv, fileIdx, source, stmts, variables, stdout, status, executed, node>>

SpecEval == InitEval /\ [][Evaluate]_vars


(***************************************************************************)
(* Properties of the evaluator (SpecEval).                                 *)
(***************************************************************************)
\* the value of an operand of the harnessed node
OperandValue(n) == IF n.opcode = "num" THEN n.value ELSE variables[n.value]
LeftValue == OperandValue(node.kids[1])
RightValue == OperandValue(node.kids[2])

\* the operator of the harnessed node applied to the operand values, untruncated
ExactResult ==
    IF node.opcode = "binop" THEN BinOpApply(node.value, LeftValue, RightValue).value
    ELSE UnOpApply(node.value, LeftValue).value

IsLiteral(n, v) == n.opcode = "num" /\ n.value = v

\* C4: the value a BinOp or UnOp node evaluates to lies in [-2^63, 2^63) and is
\* congruent modulo 2^64 to the exact result of the operator on the operand values;
\* MAX + 1 evaluates to MIN and the negation of MIN to MIN.
C4_TruncatedResult ==
    (pc = "evaluated" /\ result.outcome = "return") =>
        /\ result.value \in Int64
        /\ (result.value - ExactResult) % Modulus = 0
        /\ (node.opcode = "binop" /\ node.value = "+" /\ LeftValue = MaxInt /\ RightValue = 1)
              => result.value = MinInt
        /\ (node.opcode = "unop" /\ node.value = "-" /\ LeftValue = MinInt)
              => result.value = MinInt

\* C4 witness: BinOp(+, Num(MAX), Num(1)) has been evaluated, to MIN
C4_Witness ==
    /\ pc = "evaluated"
    /\ node.opcode = "binop" /\ node.value = "+"
    /\ IsLiteral(node.kids[1], MaxInt) /\ IsLiteral(node.kids[2], 1)
    /\ result.outcome = "return" /\ result.value = MinInt

\* a division or a modulo of two values of the 64-bit range, the divisor not zero
DivModCase ==
    /\ pc = "evaluated"
    /\ node.opcode = "binop" /\ node.value \in {"/", "%"}
    /\ LeftValue \in Int64 /\ RightValue \in Int64 /\ RightValue # 0

\* what evaluating the node yields with its operator replaced by op
WithOperator(op) ==
    IF node.value = op THEN result.value
    ELSE evaluate_expression(variables, [node EXCEPT !.value = op]).value

Quotient == WithOperator("/")
Remainder == WithOperator("%")

RemainderFollowsDivisor ==
    /\ Remainder = 0 \/ ((Remainder < 0) <=> (RightValue < 0))
    /\ Abs(Remainder) < Abs(RightValue)

\* C5 as stated: l = q*r + rem exactly, rem is 0 or has the sign of r, |rem| < |r|
C5_Original ==
    DivModCase =>
        /\ LeftValue = Quotient * RightValue + Remainder
        /\ RemainderFollowsDivisor

\* C5 as amended: the same, except that MIN / -1 wraps to MIN (with remainder 0), so
\* that l = q*r + rem holds only modulo 2^64 there
C5_FloorDivision ==
    DivModCase =>
        /\ RemainderFollowsDivisor
        /\ IF LeftValue = MinInt /\ RightValue = -1
           THEN /\ Quotient = MinInt /\ Remainder = 0
                /\ (LeftValue - (Quotient * RightValue + Remainder)) % Modulus = 0
           ELSE LeftValue = Quotient * RightValue + Remainder

\* C5 witness: -7 / 2 has been evaluated, to -4, and -7 % 2 is 1
C5_Witness ==
    /\ DivModCase
    /\ node.value = "/" /\ LeftValue = -7 /\ RightValue = 2
    /\ result.value = -4 /\ Remainder = 1

\* C6 as stated: with every variable bound, both operands in the 64-bit range and no
\* division or modulo by zero, evaluation returns a value and does not fault
C6_Original ==
    ( /\ pc = "evaluated"
      /\ LeftValue \in Int64
      /\ node.opcode = "binop" => RightValue \in Int64
      /\ ~(node.opcode = "binop" /\ node.value \in {"/", "%"} /\ RightValue = 0) )
    => result.outcome = "return"


(***************************************************************************)
(* Properties of the parser (SpecParse).                                   *)
(***************************************************************************)
\* the trees the claims speak of
Leaf(tok) ==
    IF tok.type = "IDENT" THEN Node("var", tok.text, <<>>) ELSE Node("num", tok.number, <<>>)
BinOp(op, l, r) == Node("binop", op, <<l, r>>)
UnOp(op, x) == Node("unop", op, <<x>>)
EmptyStatements == Node("statements", None, <<>>)
OneStatement(st) == Node("statements", None, <<st, EmptyStatements>>)
AssignTo(name, e) == OneStatement(Node("assign", "=", <<name, e>>))
PrintOf(e) == OneStatement(Node("print", e, <<>>))

IsOperand(tok) == tok.type \in {"IDENT", "NUMBER"}

\* C1 as stated: parse returns a StatementList root or raises SyntaxError carrying a
\* token type; there is no third outcome
C1_Original ==
    pc = "tested" =>
        \/ result.outcome = "return" /\ result.value.opcode = "statements"
        \/ result.outcome = "raise" /\ result.exc = "SyntaxError" /\ result.arg \in TokenTypes

\* the six levels of binary operators as C2 lists them, lowest first
ClaimedLevel(op) ==
    CASE op = "|" -> 1
      [] op = "^" -> 2
      [] op = "&" -> 3
      [] op \in {"<<", ">>"} -> 4
      [] op \in {"+", "-"} -> 5
      [] op \in {"*", "/", "%"} -> 6

\* the source is   s = a op1 b op2 c ;
TwoOpShape ==
    /\ Len(source) = 8
    /\ source[1].type = "IDENT" /\ source[2].type = "EQ" /\ source[8].type = "SEMICOLON"
    /\ IsOperand(source[3]) /\ IsOperand(source[5]) /\ IsOperand(source[7])
    /\ source[4].type \in BinTokens /\ source[6].type \in BinTokens

TwoOpExpected ==
    LET a == Leaf(source[3])
        b == Leaf(source[5])
        c == Leaf(source[7])
        op1 == source[4].text
        op2 == source[6].text
    IN  IF ClaimedLevel(op2) > ClaimedLevel(op1)
        THEN BinOp(op1, a, BinOp(op2, b, c))
        ELSE BinOp(op2, BinOp(op1, a, b), c)

\* C2: a op1 b op2 c parses as BinOp(op1, a, BinOp(op2, b, c)) when op2 is on a
\* strictly higher level than op1 and as BinOp(op2, BinOp(op1, a, b), c) otherwise;
\* x + y | z parses as BinOp(|, BinOp(+, x, y), z).
C2_Precedence ==
    (pc = "tested" /\ TwoOpShape) =>
        /\ result.outcome = "return"
        /\ result.value = AssignTo(source[1].text, TwoOpExpected)
        /\ source = AssignSrc("s", <<Ident("x"), T("PLUS"), Ident("y"), T("BAR"), Ident("z")>>)
             => result.value =
                  AssignTo("s", BinOp("|", BinOp("+", Node("var", "x", <<>>),
                                                      Node("var", "y", <<>>)),
                                           Node("var", "z", <<>>)))

\* C2 witness: s = x + y * z; has been parsed, to BinOp(+, x, BinOp(*, y, z))
C2_Witness ==
    /\ pc = "tested"
    /\ source = AssignSrc("s", <<Ident("x"), T("PLUS"), Ident("y"), T("STAR"), Ident("z")>>)
    /\ result.outcome = "return"
    /\ result.value =
         AssignTo("s", BinOp("+", Node("var", "x", <<>>),
                                  BinOp("*", Node("var", "y", <<>>), Node("var", "z", <<>>))))

\* the expression tokens of a one-statement source: s = <e> ;  or  print ( <e> ) ;
ExprTokens ==
    IF source[1].type = "PRINT" THEN SubSeq(source, 3, Len(source) - 2)
    ELSE SubSeq(source, 3, Len(source) - 1)

OneStatementShape ==
    \/ /\ Len(source) >= 4
       /\ source[1].type = "IDENT" /\ source[2].type = "EQ"
       /\ source[Len(source)].type = "SEMICOLON"
    \/ /\ Len(source) >= 5
       /\ source[1].type = "PRINT" /\ source[2].type = "LPAREN"
       /\ source[Len(source) - 1].type = "RPAREN" /\ source[Len(source)].type = "SEMICOLON"

\* the root the parser returns for the one-statement source whose expression is e
Wrapped(e) == IF source[1].type = "PRINT" THEN PrintOf(e) ELSE AssignTo(source[1].text, e)

\* the expression is   u a op b,   a op u b   or   u a op v b
PrefixFirst(e) ==
    /\ Len(e) = 4
    /\ e[1].type \in PrefixTokens /\ IsOperand(e[2]) /\ e[3].type \in BinTokens /\ IsOperand(e[4])
PrefixSecond(e) ==
    /\ Len(e) = 4
    /\ IsOperand(e[1]) /\ e[2].type \in BinTokens /\ e[3].type \in PrefixTokens /\ IsOperand(e[4])
PrefixBoth(e) ==
    /\ Len(e) = 5
    /\ e[1].type \in PrefixTokens /\ IsOperand(e[2]) /\ e[3].type \in BinTokens
    /\ e[4].type \in PrefixTokens /\ IsOperand(e[5])

\* C3: a prefix operator binds more tightly than every binary operator: u a op b
\* parses as BinOp(op, UnOp(u, a), b), a op u b as BinOp(op, a, UnOp(u, b)), and
\* u a op v b as BinOp(op, UnOp(u, a), UnOp(v, b)).
C3_PrefixBindsTighter ==
    (pc = "tested" /\ OneStatementShape) =>
        LET e == ExprTokens
        IN  /\ PrefixFirst(e) =>
                 /\ result.outcome = "return"
                 /\ result.value =
                      Wrapped(BinOp(e[3].text, UnOp(e[1].text, Leaf(e[2])), Leaf(e[4])))
            /\ PrefixSecond(e) =>
                 /\ result.outcome = "return"
                 /\ result.value =
                      Wrapped(BinOp(e[2].text, Leaf(e[1]), UnOp(e[3].text, Leaf(e[4]))))
            /\ PrefixBoth(e) =>
                 /\ result.outcome = "return"
                 /\ result.value =
                      Wrapped(BinOp(e[3].text, UnOp(e[1].text, Leaf(e[2])),
                                               UnOp(e[4].text, Leaf(e[5]))))

\* C3 witness: print(~1 - -2); has been parsed, to BinOp(-, UnOp(~, 1), UnOp(-, 2))
C3_Witness ==
    /\ pc = "tested"
    /\ source = PrintSrc(<<T("TILDE"), Number(1), T("MINUS"), T("MINUS"), Number(2)>>)
    /\ result.outcome = "return"
    /\ result.value =
         PrintOf(BinOp("-", UnOp("~", Node("num", 1, <<>>)), UnOp("-", Node("num", 2, <<>>))))


(***************************************************************************)
(* Properties of a run of main (Spec).                                     *)
(***************************************************************************)
RECURSIVE Scan(_, _, _, _, _)
\* The grammar read as a recogniser of its sentences' prefixes: the position of the
\* first token of toks that no production allows there (Len(toks) + 1 when there is
\* none).  st is what is expected next, ctx the statement being read, depth the
\* number of open parentheses of its expression.
Scan(toks, i, st, ctx, depth) ==
    IF i > Len(toks) THEN i
    ELSE LET t == toks[i].type
         IN  CASE st = "statement" ->
                     IF t = "IDENT" THEN Scan(toks, i + 1, "EQ", "assign", 0)
                     ELSE IF t = "PRINT" THEN Scan(toks, i + 1, "LPAREN", "print", 0)
                     ELSE i
               [] st = "EQ" ->
                     IF t = "EQ" THEN Scan(toks, i + 1, "operand", ctx, 0) ELSE i
               [] st = "LPAREN" ->
                     IF t = "LPAREN" THEN Scan(toks, i + 1, "operand", ctx, 0) ELSE i
               [] st = "operand" ->
                     IF t \in {"IDENT", "NUMBER"} THEN Scan(toks, i + 1, "operator", ctx, depth)
                     ELSE IF t \in {"MINUS", "UMINUS", "TILDE"}
                     THEN Scan(toks, i + 1, "operand", ctx, depth)
                     ELSE IF t = "LPAREN" THEN Scan(toks, i + 1, "operand", ctx, depth + 1)
                     ELSE i
               [] st = "operator" ->
                     IF t \in BinTokens THEN Scan(toks, i + 1, "operand", ctx, depth)
                     ELSE IF t = "RPAREN" /\ depth > 0
                     THEN Scan(toks, i + 1, "operator", ctx, depth - 1)
                     ELSE IF t = "RPAREN" /\ ctx = "print"
                     THEN Scan(toks, i + 1, "SEMICOLON", ctx, 0)
                     ELSE IF t = "SEMICOLON" /\ depth = 0 /\ ctx = "assign"
                     THEN Scan(toks, i + 1, "statement", "", 0)
                     ELSE i
               [] st = "SEMICOLON" ->
                     IF t = "SEMICOLON" THEN Scan(toks, i + 1, "statement", "", 0) ELSE i

FirstBad(toks) == Scan(toks, 1, "statement", "", 0)

\* the file being processed holds a token that fits no production
HasBadToken == fileIdx >= 1 /\ FirstBad(source) <= Len(source)

\* C8: when the file's tokens hold one that fits no production, parsing fails with a
\* SyntaxError carrying that token's type and no statement of the file is executed
\* (nothing of the file is printed after its banner): parsing completes or fails
\* before any statement of the file runs.
C8_SyntaxErrorAbortsFile ==
    /\ HasBadToken =>
         /\ pc = "exited"
         /\ status = Exited(1, "SyntaxError", source[FirstBad(source)].type)
         /\ executed = <<>>
         /\ stdout[Len(stdout)] = Banner(fileIdx)
    /\ executed # <<>> => parser_parse(source).outcome = "return"

\* C8 witness: x = 1; s = x + + x; was loaded: SyntaxError(PLUS), nothing executed
C8_Witness ==
    /\ source = AssignSrc("x", <<Number(1)>>)
                  \o AssignSrc("s", <<Ident("x"), T("PLUS"), T("PLUS"), Ident("x")>>)
    /\ FirstBad(source) = 9
    /\ status = Exited(1, "SyntaxError", "PLUS")
    /\ executed = <<>>


\* the expression of a statement node
StmtExpr(st) == IF st.opcode = "assign" THEN st.kids[2] ELSE st.value

RECURSIVE VarRefs(_)
\* the variables an expression references, in the order of their evaluation
VarRefs(e) ==
    CASE e.opcode = "var" -> <<e.value>>
      [] e.opcode = "num" -> <<>>
      [] e.opcode = "binop" -> VarRefs(e.kids[1]) \o VarRefs(e.kids[2])
      [] e.opcode = "unop" -> VarRefs(e.kids[1])

Unassigned(e) == SelectSeq(VarRefs(e), LAMBDA v : v \notin DOMAIN variables)

\* the walk is at a statement whose expression references an unassigned variable
AtUndefined ==
    /\ pc = "while"
    /\ stmts # None
    /\ stmts.kids # <<>>
    /\ Unassigned(StmtExpr(stmts.kids[1])) # <<>>

ErrorLine(v) == <<"Error: ", v, " is not defined">>

\* the step the walk takes ends the run, without binding anything, moving on or
\* printing a value
FatalStep ==
    /\ pc' = "exited"
    /\ status'.code = 1
    /\ variables' = variables
    /\ stmts' = stmts
    /\ fileIdx' = fileIdx

\* C7 as stated: at a statement referencing an unassigned variable the run ends with
\* UndefinedVariable naming that variable and a non-zero exit, the statement has no
\* effect, and nothing is executed after the run has ended
C7_Original ==
    [][ /\ pc # "exited"
        /\ AtUndefined =>
             /\ FatalStep
             /\ status'.exc = "SystemExit"
             /\ \E i \in 1 .. Len(Unassigned(StmtExpr(stmts.kids[1]))) :
                  stdout' = Append(stdout, ErrorLine(Unassigned(StmtExpr(stmts.kids[1]))[i]))
      ]_vars

\* C7 as amended: the run ends at that statement with a non-zero exit, either with
\* UndefinedVariable naming the first unassigned variable in evaluation order or,
\* when a subexpression evaluated before that variable faults (division or modulo by
\* zero, negative shift count), with that fault and no message on standard output;
\* the statement has no effect, and nothing is executed after the run has ended.
C7_UndefinedVariableIsFatal ==
    [][ /\ pc # "exited"
        /\ AtUndefined =>
             /\ FatalStep
             /\ \/ /\ status'.exc = "SystemExit"
                   /\ stdout' = Append(stdout, ErrorLine(Unassigned(StmtExpr(stmts.kids[1]))[1]))
                \/ /\ status'.exc \in {"ZeroDivisionError", "ValueError"}
                   /\ stdout' = stdout
      ]_vars

\* C7 witness: x = 1; x = q; has run: the second statement ended the run, x is still 1
C7_Witness ==
    /\ pc = "exited"
    /\ status = Exited(1, "SystemExit", "1")
    /\ Len(executed) = 2
    /\ executed[2].opcode = "assign"
    /\ variables = Bind(EmptyEnv, "x", 1)
    /\ stdout[Len(stdout)] = ErrorLine("q")

\* the number of statements of a well-formed source, and the tokens of its k-th
StatementCount(toks) == Len(SelectSeq(toks, LAMBDA t : t.type = "SEMICOLON"))

RECURSIVE StatementEnd(_, _)
\* the position of the k-th SEMICOLON of toks (0 for k = 0)
StatementEnd(toks, k) ==
    IF k = 0 THEN 0
    ELSE LET from == StatementEnd(toks, k - 1) + 1
         IN  CHOOSE j \in from .. Len(toks) :
                /\ toks[j].type = "SEMICOLON"
                /\ \A h \in from .. j - 1 : toks[h].type # "SEMICOLON"

StatementTokens(toks, k) == SubSeq(toks, StatementEnd(toks, k - 1) + 1, StatementEnd(toks, k))

\* the node of the k-th statement of the source, parsed on its own
StatementNode(toks, k) == parser_parse(StatementTokens(toks, k)).value.kids[1]

\* the lines written since the banner of the file being processed
RECURSIVE LastBanner(_)
LastBanner(i) == IF stdout[i] = Banner(fileIdx) THEN i ELSE LastBanner(i - 1)
FileOutput == SubSeq(stdout, LastBanner(Len(stdout)) + 1, Len(stdout))

CharValue(c) ==
    CASE c = "0" -> 0 [] c = "1" -> 1 [] c = "2" -> 2 [] c = "3" -> 3 [] c = "4" -> 4
      [] c = "5" -> 5 [] c = "6" -> 6 [] c = "7" -> 7 [] c = "8" -> 8 [] c = "9" -> 9

RECURSIVE DigitsValue(_)
DigitsValue(ds) ==
    IF ds = <<>> THEN 0 ELSE 10 * DigitsValue(SubSeq(ds, 1, Len(ds) - 1)) + CharValue(ds[Len(ds)])

DecimalDigits == {"0", "1", "2", "3", "4", "5", "6", "7", "8", "9"}

\* line is the signed decimal numeral of v: an optional minus sign (for a negative
\* v only), then digits without a leading zero
IsDecimalOf(line, v) ==
    LET ds == IF line # <<>> /\ line[1] = "-" THEN Tail(line) ELSE line
    IN  /\ ds # <<>>
        /\ \A i \in 1 .. Len(ds) : ds[i] \in DecimalDigits
        /\ Len(ds) > 1 => ds[1] # "0"
        /\ (line[1] = "-") <=> (v < 0)
        /\ DigitsValue(ds) = Abs(v)

RECURSIVE PrintedValues(_, _)
\* the values the Print statements of sts print, in order, starting from env
PrintedValues(sts, env) ==
    IF sts = <<>> THEN <<>>
    ELSE LET st == Head(sts)
             v == evaluate_expression(env, StmtExpr(st)).value
         IN  IF st.opcode = "assign"
             THEN PrintedValues(Tail(sts), Bind(env, st.kids[1], v))
             ELSE <<v>> \o PrintedValues(Tail(sts), env)

\* the walk of the file being processed has met no fatal error so far
NoFatalError == fileIdx >= 1 /\ stmts # None /\ status.code \in {-1, 0}

C10_Original == \A k \in DOMAIN variables : variables[k] \in Int64

=============================================================================
